---------------------------- MODULE Spec2Model ----------------------------
(***************************************************************************)
(* Model of osmium::Location and of the decimal codec of                   *)
(* include/osmium/osm/location.hpp:                                        *)
(*   detail::string_to_location_coordinate          (text -> int32_t)      *)
(*   detail::append_location_coordinate_to_string   (int32_t -> text)      *)
(*   class Location                                                        *)
(*                                                                         *)
(* Text is a sequence of character codes (ASCII), followed by an implicit  *)
(* terminating NUL.  int32_t values are integers of the model; the         *)
(* parser's int64_t accumulator is kept as four 16-bit limbs, least        *)
(* significant first, in two's complement, so that 64-bit wrap-around is   *)
(* computed exactly.                                                       *)
(***************************************************************************)
EXTENDS Integers, Sequences, FiniteSets, TLC

VARIABLES
    m_x,      \* Location::m_x
    m_y,      \* Location::m_y
    data,     \* the character buffer a call reads or writes
    str,      \* the caller's cursor into data (1-based index)
    value,    \* the int32_t handed to the formatter
    lit,      \* the structure of the text in data, when it was built as a literal
    src,      \* the Location whose text is in data, as <<x, y>>
    ret,      \* the outcome of the last call
    pc        \* the caller's position

vars == <<m_x, m_y, data, str, value, lit, src, ret, pc>>

-----------------------------------------------------------------------------
(* Characters *)

CharNul == 0
CharMinus == 45
CharDot == 46
CharComma == 44
CharZero == 48
CharNine == 57
CharUpperE == 69
CharLowerE == 101

\* n copies of d
Rep(d, n) == [i \in 1 .. n |-> d]

\* *str for a NUL-terminated buffer
CharAt(buf, i) == IF i >= 1 /\ i <= Len(buf) THEN buf[i] ELSE CharNul

IsDigit(c) == c >= CharZero /\ c <= CharNine

-----------------------------------------------------------------------------
(* int32_t *)

INT32_MAX == 2147483647
INT32_MIN == -INT32_MAX - 1

\* C++ integer division and remainder by a positive divisor (truncating)
CRem(a, b) ==
    IF a >= 0 THEN a % b
    ELSE LET m == a % b IN IF m = 0 THEN 0 ELSE m - b

CDiv(a, b) == (a - CRem(a, b)) \div b

-----------------------------------------------------------------------------
(* int64_t as four 16-bit limbs, two's complement *)

LimbBase == 65536

I64(n) == <<n, 0, 0, 0>>

I64Zero == I64(0)

\* a * m + c, with the carry out of bit 63
I64MulAdd(a, m, c) ==
    LET t1 == a[1] * m + c
        t2 == a[2] * m + (t1 \div LimbBase)
        t3 == a[3] * m + (t2 \div LimbBase)
        t4 == a[4] * m + (t3 \div LimbBase)
    IN  [bits  |-> <<t1 % LimbBase, t2 % LimbBase, t3 % LimbBase, t4 % LimbBase>>,
         carry |-> t4 \div LimbBase]

I64IsNeg(a) == a[4] >= LimbBase \div 2

I64IsPos(a) == ~I64IsNeg(a) /\ a # I64Zero

I64Neg(a) ==
    I64MulAdd(<<LimbBase - 1 - a[1], LimbBase - 1 - a[2],
                LimbBase - 1 - a[3], LimbBase - 1 - a[4]>>, 1, 1).bits

\* unsigned division by ten
I64UDiv10(a) ==
    LET t4 == a[4]
        t3 == (t4 % 10) * LimbBase + a[3]
        t2 == (t3 % 10) * LimbBase + a[2]
        t1 == (t2 % 10) * LimbBase + a[1]
    IN  <<t1 \div 10, t2 \div 10, t3 \div 10, t4 \div 10>>

\* result / 10 (truncating toward zero)
I64Div10(a) == IF I64IsNeg(a) THEN I64Neg(I64UDiv10(I64Neg(a))) ELSE I64UDiv10(a)

\* result > INT32_MAX || result < INT32_MIN is false
I64FitsInt32(a) ==
    IF I64IsNeg(a)
    THEN a[4] = LimbBase - 1 /\ a[3] = LimbBase - 1 /\ a[2] >= LimbBase \div 2
    ELSE a[4] = 0 /\ a[3] = 0 /\ a[2] < LimbBase \div 2

\* static_cast<int32_t>(result), for a result that fits
I64ToInt32(a) ==
    IF I64IsNeg(a) THEN (a[2] - LimbBase) * LimbBase + a[1]
    ELSE a[2] * LimbBase + a[1]

-----------------------------------------------------------------------------
(* Signed overflow is undefined behaviour: a build either wraps modulo the  *)
(* width of the type or traps.  Every call draws one of the two.            *)

OverflowOutcomes == {"wrap", "trap"}

-----------------------------------------------------------------------------
(* detail::string_to_location_coordinate *)

coordinate_precision == 10000000

\* optional minus sign
ParseSign(buf, s) ==
    IF CharAt(buf, s) = CharMinus
    THEN [sign |-> -1, str |-> s + 1]
    ELSE [sign |-> 1, str |-> s]

\* optional additional digits before decimal point
RECURSIVE ReadIntegerDigits(_, _, _, _)
ReadIntegerDigits(buf, s, result, max_digits) ==
    IF IsDigit(CharAt(buf, s)) /\ max_digits > 0
    THEN ReadIntegerDigits(buf, s + 1,
                           I64MulAdd(result, 10, CharAt(buf, s) - CharZero).bits,
                           max_digits - 1)
    ELSE [str |-> s, result |-> result, max_digits |-> max_digits]

\* paranoia check for maximum number of digits
IntegerDigitsLeft == 10

\* mutant: the cap is checked only after one more digit
ParseIntegerPart_late(buf, s) ==
    IF CharAt(buf, s) # CharDot
    THEN IF IsDigit(CharAt(buf, s))
         THEN LET r == ReadIntegerDigits(buf, s + 1, I64(CharAt(buf, s) - CharZero),
                                         IntegerDigitsLeft + 1)
              IN  [ok |-> r.max_digits # 0, str |-> r.str, result |-> r.result]
         ELSE [ok |-> FALSE, str |-> s, result |-> I64Zero]
    ELSE [ok |-> IsDigit(CharAt(buf, s + 1)), str |-> s, result |-> I64Zero]

\* the part before the decimal point
ParseIntegerPart(buf, s) ==
    IF CharAt(buf, s) # CharDot
    THEN IF IsDigit(CharAt(buf, s))
         THEN LET r == ReadIntegerDigits(buf, s + 1, I64(CharAt(buf, s) - CharZero),
                                         IntegerDigitsLeft)
              IN  [ok |-> r.max_digits # 0, str |-> r.str, result |-> r.result]
         ELSE [ok |-> FALSE, str |-> s, result |-> I64Zero]
    ELSE [ok |-> IsDigit(CharAt(buf, s + 1)), str |-> s, result |-> I64Zero]

\* read significant digits
RECURSIVE ReadSignificantDigits(_, _, _, _)
ReadSignificantDigits(buf, s, result, scale) ==
    IF scale > 0 /\ IsDigit(CharAt(buf, s))
    THEN ReadSignificantDigits(buf, s + 1,
                               I64MulAdd(result, 10, CharAt(buf, s) - CharZero).bits,
                               scale - 1)
    ELSE [str |-> s, result |-> result, scale |-> scale]

\* ignore non-significant digits
RECURSIVE SkipDigits(_, _, _)
SkipDigits(buf, s, max_digits) ==
    IF IsDigit(CharAt(buf, s)) /\ max_digits > 0
    THEN SkipDigits(buf, s + 1, max_digits - 1)
    ELSE [str |-> s, max_digits |-> max_digits]

\* one more than significant digits to allow rounding
InitialScale == 8

IgnoredDigitsLeft == 20

\* optional decimal point
ParseFraction(buf, s, result) ==
    IF CharAt(buf, s) = CharDot
    THEN LET sig == ReadSignificantDigits(buf, s + 1, result, InitialScale)
             ign == SkipDigits(buf, sig.str, IgnoredDigitsLeft)
         IN  [ok |-> ign.max_digits # 0, str |-> ign.str,
              result |-> sig.result, scale |-> sig.scale]
    ELSE [ok |-> TRUE, str |-> s, result |-> result, scale |-> InitialScale]

\* optional additional digits in exponent
RECURSIVE ReadExponentDigits(_, _, _, _)
ReadExponentDigits(buf, s, eresult, max_digits) ==
    IF IsDigit(CharAt(buf, s)) /\ max_digits > 0
    THEN ReadExponentDigits(buf, s + 1, eresult * 10 + (CharAt(buf, s) - CharZero),
                            max_digits - 1)
    ELSE [str |-> s, eresult |-> eresult, max_digits |-> max_digits]

ExponentDigitsLeft == 5

\* optional exponent in scientific notation
ParseExponent(buf, s, scale) ==
    IF CharAt(buf, s) = CharLowerE \/ CharAt(buf, s) = CharUpperE
    THEN LET sg == ParseSign(buf, s + 1)
         IN  IF IsDigit(CharAt(buf, sg.str))
             THEN LET r == ReadExponentDigits(buf, sg.str + 1,
                                              CharAt(buf, sg.str) - CharZero,
                                              ExponentDigitsLeft)
                  IN  [ok |-> r.max_digits # 0, str |-> r.str,
                       scale |-> scale + r.eresult * sg.sign]
             ELSE [ok |-> FALSE, str |-> s, scale |-> scale]
    ELSE [ok |-> TRUE, str |-> s, scale |-> scale]

\* mutant: divides once, whatever the scale
ScaleDown_once(result, scale) ==
    IF scale < 0 /\ I64IsPos(result) THEN I64Div10(result) ELSE result

\* for (; scale < 0 && result > 0; ++scale) result /= 10;
RECURSIVE ScaleDown(_, _)
ScaleDown(result, scale) ==
    IF scale < 0 /\ I64IsPos(result)
    THEN ScaleDown(I64Div10(result), scale + 1)
    ELSE result

\* result *= 10 overflows int64_t
Mul10Overflows(result) ==
    LET p == I64MulAdd(result, 10, 0)
    IN  ~I64IsNeg(result) /\ (p.carry # 0 \/ I64IsNeg(p.bits))

\* for (; scale > 0; --scale) result *= 10;
RECURSIVE ScaleUp(_, _, _)
ScaleUp(result, scale, ovf) ==
    IF scale > 0
    THEN IF Mul10Overflows(result) /\ ovf = "trap"
         THEN [status |-> "abort", result |-> result]
         ELSE ScaleUp(I64MulAdd(result, 10, 0).bits, scale - 1, ovf)
    ELSE [status |-> "ok", result |-> result]

ResolveScale(result, scale, ovf) ==
    IF scale < 0
    THEN [status |-> "ok", result |-> ScaleDown(result, scale)]
    ELSE ScaleUp(result, scale, ovf)

\* mutant: the eighth digit is cut off, not rounded
RoundAndSign_truncating(result, sign) ==
    LET q == I64Div10(result)
    IN  IF sign = -1 THEN I64Neg(q) ELSE q

\* result = (result + 5) / 10 * sign;
RoundAndSign(result, sign) ==
    LET q == I64Div10(I64MulAdd(result, 1, 5).bits)
    IN  IF sign = -1 THEN I64Neg(q) ELSE q

ParseError(s) == [status |-> "invalid_location", value |-> 0, str |-> s]

\* `start` is *data on entry; the returned str is *data on exit, which the
\* code stores only on success.
string_to_location_coordinate(buf, start, ovf) ==
    LET sg == ParseSign(buf, start)
        ip == ParseIntegerPart(buf, sg.str)
    IN  IF ~ip.ok THEN ParseError(start)
        ELSE
        LET fp == ParseFraction(buf, ip.str, ip.result)
        IN  IF ~fp.ok THEN ParseError(start)
            ELSE
            LET ep == ParseExponent(buf, fp.str, fp.scale)
            IN  IF ~ep.ok THEN ParseError(start)
                ELSE
                LET sc == ResolveScale(fp.result, ep.scale, ovf)
                IN  IF sc.status = "abort"
                    THEN [status |-> "abort", value |-> 0, str |-> start]
                    ELSE
                    LET result == RoundAndSign(sc.result, sg.sign)
                    IN  IF ~I64FitsInt32(result) THEN ParseError(start)
                        ELSE [status |-> "ok", value |-> I64ToInt32(result),
                              str |-> ep.str]

-----------------------------------------------------------------------------
(* detail::append_location_coordinate_to_string *)

\* value = -value;
Negate32(v, ovf) ==
    IF v = INT32_MIN
    THEN IF ovf = "trap" THEN [status |-> "abort", value |-> v]
         ELSE [status |-> "ok", value |-> v]
    ELSE [status |-> "ok", value |-> -v]

\* write digits into temporary buffer (least significant first)
RECURSIVE WriteDigits(_, _)
WriteDigits(v, temp) ==
    LET temp1 == Append(temp, CRem(v, 10) + CharZero)
        v1 == CDiv(v, 10)
    IN  IF v1 # 0 THEN WriteDigits(v1, temp1) ELSE temp1

FractionDigits == 7

\* mutant: pads to one digit less than the fraction has
RECURSIVE PadDigits_short(_)
PadDigits_short(temp) ==
    IF Len(temp) < FractionDigits - 1
    THEN PadDigits_short(Append(temp, CharZero))
    ELSE temp

\* while (t-temp < 7) *t++ = '0';
RECURSIVE PadDigits(_)
PadDigits(temp) ==
    IF Len(temp) < FractionDigits THEN PadDigits(Append(temp, CharZero)) ELSE temp

\* write out digits before decimal point: the output and the new t
WriteIntegerPart(iterator, v, temp) ==
    LET t == Len(temp)
    IN  IF v >= coordinate_precision
        THEN IF v >= 10 * coordinate_precision
             THEN IF v >= 100 * coordinate_precision
                  THEN [out |-> iterator \o <<temp[t], temp[t - 1], temp[t - 2]>>,
                        t |-> t - 3]
                  ELSE [out |-> iterator \o <<temp[t], temp[t - 1]>>, t |-> t - 2]
             ELSE [out |-> Append(iterator, temp[t]), t |-> t - 1]
        ELSE [out |-> Append(iterator, CharZero), t |-> t]

\* remove trailing zeros: the new tn (offset from temp)
RECURSIVE SkipTrailingZeros(_, _, _)
SkipTrailingZeros(temp, tn, t) ==
    IF tn < t /\ temp[tn + 1] = CharZero
    THEN SkipTrailingZeros(temp, tn + 1, t)
    ELSE tn

\* while (t != tn) *iterator++ = *--t;
RECURSIVE WriteFractionDigits(_, _, _, _)
WriteFractionDigits(iterator, temp, t, tn) ==
    IF t # tn
    THEN WriteFractionDigits(Append(iterator, temp[t]), temp, t - 1, tn)
    ELSE iterator

\* decimal point
WriteFraction(iterator, temp, t, tn) ==
    IF t # tn
    THEN WriteFractionDigits(Append(iterator, CharDot), temp, t, tn)
    ELSE iterator

\* `iterator` is the text written so far; out is that text with value appended
append_location_coordinate_to_string(iterator, v0, ovf) ==
    LET ng == IF v0 < 0 THEN Negate32(v0, ovf) ELSE [status |-> "ok", value |-> v0]
        it1 == IF v0 < 0 THEN Append(iterator, CharMinus) ELSE iterator
    IN  IF ng.status = "abort" THEN [status |-> "abort", out |-> it1]
        ELSE
        LET temp == PadDigits(WriteDigits(ng.value, <<>>))
            ip == WriteIntegerPart(it1, ng.value, temp)
            tn == SkipTrailingZeros(temp, 0, ip.t)
        IN  [status |-> "ok", out |-> WriteFraction(ip.out, temp, ip.t, tn)]

-----------------------------------------------------------------------------
(* class Location *)

undefined_coordinate == 2147483647

\* the exact quotient c / coordinate_precision that the double approximates
fix_to_double(c) == [num |-> c, den |-> coordinate_precision]

\* mutant: defined as soon as one axis is
operator_bool_either(x, y) == x # undefined_coordinate \/ y # undefined_coordinate

operator_bool(x, y) == x # undefined_coordinate /\ y # undefined_coordinate

\* mutant: the upper bounds are exclusive
valid_exclusive(x, y) ==
    /\ x >= -180 * coordinate_precision
    /\ x < 180 * coordinate_precision
    /\ y >= -90 * coordinate_precision
    /\ y < 90 * coordinate_precision

valid(x, y) ==
    /\ x >= -180 * coordinate_precision
    /\ x <= 180 * coordinate_precision
    /\ y >= -90 * coordinate_precision
    /\ y <= 90 * coordinate_precision

Thrown(op) == [op |-> op, status |-> "invalid_location", value |-> <<>>]

Returned(op, v) == [op |-> op, status |-> "ok", value |-> v]

Aborted(op) == [op |-> op, status |-> "abort", value |-> <<>>]

lon(x, y) == IF ~valid(x, y) THEN Thrown("lon") ELSE Returned("lon", fix_to_double(x))

lon_without_check(x, y) == Returned("lon_without_check", fix_to_double(x))

lat(x, y) == IF ~valid(x, y) THEN Thrown("lat") ELSE Returned("lat", fix_to_double(y))

lat_without_check(x, y) == Returned("lat_without_check", fix_to_double(y))

as_string_without_check(iterator, x, y, separator, ovf) ==
    LET r1 == append_location_coordinate_to_string(iterator, x, ovf)
    IN  IF r1.status = "abort" THEN r1
        ELSE append_location_coordinate_to_string(Append(r1.out, separator), y, ovf)

as_string(iterator, x, y, separator, ovf) ==
    IF ~valid(x, y) THEN [status |-> "invalid_location", out |-> iterator]
    ELSE as_string_without_check(iterator, x, y, separator, ovf)

\* the Location after set_lon(str): the parser's exception leaves before the
\* assignment to m_x; the trailing-character check comes after it
set_lon(x, y, buf, ovf) ==
    LET r == string_to_location_coordinate(buf, 1, ovf)
    IN  IF r.status # "ok"
        THEN [m_x |-> x, m_y |-> y, status |-> r.status, parsed |-> FALSE]
        ELSE [m_x |-> r.value, m_y |-> y, parsed |-> TRUE,
              status |-> IF CharAt(buf, r.str) # CharNul
                         THEN "invalid_location" ELSE "ok"]

\* the Location after set_lat(str)
set_lat(x, y, buf, ovf) ==
    LET r == string_to_location_coordinate(buf, 1, ovf)
    IN  IF r.status # "ok"
        THEN [m_x |-> x, m_y |-> y, status |-> r.status, parsed |-> FALSE]
        ELSE [m_x |-> x, m_y |-> r.value, parsed |-> TRUE,
              status |-> IF CharAt(buf, r.str) # CharNul
                         THEN "invalid_location" ELSE "ok"]

\* the Location and the cursor after set_lon_partial(&str)
set_lon_partial(x, y, buf, s, ovf) ==
    LET r == string_to_location_coordinate(buf, s, ovf)
    IN  [m_x |-> IF r.status = "ok" THEN r.value ELSE x, m_y |-> y,
         str |-> r.str, status |-> r.status]

\* mutant: stores into the other axis
set_lat_partial_into_x(x, y, buf, s, ovf) ==
    LET r == string_to_location_coordinate(buf, s, ovf)
    IN  [m_x |-> IF r.status = "ok" THEN r.value ELSE x, m_y |-> y,
         str |-> r.str, status |-> r.status]

\* the Location and the cursor after set_lat_partial(&str)
set_lat_partial(x, y, buf, s, ovf) ==
    LET r == string_to_location_coordinate(buf, s, ovf)
    IN  [m_x |-> x, m_y |-> IF r.status = "ok" THEN r.value ELSE y,
         str |-> r.str, status |-> r.status]

-----------------------------------------------------------------------------
(* Inputs *)

\* how far around each range boundary the sampled coordinates reach
BoundaryMargin == 1

Boundaries == {-180 * coordinate_precision, -90 * coordinate_precision, 0,
               90 * coordinate_precision, 180 * coordinate_precision}

CoordSamples ==
    {b + d : b \in Boundaries, d \in -BoundaryMargin .. BoundaryMargin}
        \cup {INT32_MIN + d : d \in 0 .. BoundaryMargin}
        \cup {INT32_MAX - d : d \in 0 .. BoundaryMargin}

Separators == {CharComma}

NoLit == [shape |-> "none"]

-----------------------------------------------------------------------------
(* Spec: one Location object and the calls made on it *)

\* explicit constexpr Location() noexcept
Init ==
    /\ m_x = undefined_coordinate
    /\ m_y = undefined_coordinate
    /\ data = <<>>
    /\ str = 1
    /\ value = 0
    /\ lit = NoLit
    /\ src = <<0, 0>>
    /\ ret = Returned("Location()", <<>>)
    /\ pc = "ready"

\* constexpr Location(const int32_t x, const int32_t y) noexcept, assigned
Construct ==
    \E x \in CoordSamples, y \in CoordSamples :
        /\ m_x' = x
        /\ m_y' = y
        /\ ret' = Returned("Location(x,y)", <<>>)
        /\ UNCHANGED <<data, str, value, lit, src, pc>>

set_x ==
    \E x \in CoordSamples :
        /\ m_x' = x
        /\ ret' = Returned("set_x", <<>>)
        /\ UNCHANGED <<m_y, data, str, value, lit, src, pc>>

set_y ==
    \E y \in CoordSamples :
        /\ m_y' = y
        /\ ret' = Returned("set_y", <<>>)
        /\ UNCHANGED <<m_x, data, str, value, lit, src, pc>>

Lon ==
    /\ ret' = lon(m_x, m_y)
    /\ UNCHANGED <<m_x, m_y, data, str, value, lit, src, pc>>

LonWithoutCheck ==
    /\ ret' = lon_without_check(m_x, m_y)
    /\ UNCHANGED <<m_x, m_y, data, str, value, lit, src, pc>>

Lat ==
    /\ ret' = lat(m_x, m_y)
    /\ UNCHANGED <<m_x, m_y, data, str, value, lit, src, pc>>

LatWithoutCheck ==
    /\ ret' = lat_without_check(m_x, m_y)
    /\ UNCHANGED <<m_x, m_y, data, str, value, lit, src, pc>>

\* as_string into an empty std::string through a back inserter; the text
\* written is the value of the call
AsString ==
    \E separator \in Separators, ovf \in OverflowOutcomes :
        LET r == as_string(<<>>, m_x, m_y, separator, ovf)
        IN  /\ ret' = [op |-> "as_string", status |-> r.status, value |-> r.out]
            /\ UNCHANGED <<m_x, m_y, data, str, value, lit, src, pc>>

AsStringWithoutCheck ==
    \E separator \in Separators, ovf \in OverflowOutcomes :
        LET r == as_string_without_check(<<>>, m_x, m_y, separator, ovf)
        IN  /\ ret' = [op |-> "as_string_without_check", status |-> r.status,
                       value |-> r.out]
            /\ UNCHANGED <<m_x, m_y, data, str, value, lit, src, pc>>

Next ==
    \/ Construct
    \/ set_x
    \/ set_y
    \/ Lon
    \/ LonWithoutCheck
    \/ Lat
    \/ LatWithoutCheck
    \/ AsString
    \/ AsStringWithoutCheck

Spec == Init /\ [][Next]_vars

-----------------------------------------------------------------------------
(* Inputs of the codec: scaled values and decimal literals *)

\* a literal: digits are kept as the numbers 0..9
Literal(neg, ip, point, fp, e, eneg, ed, junk) ==
    [shape |-> "literal", neg |-> neg, ip |-> ip, point |-> point, fp |-> fp,
     e |-> e, eneg |-> eneg, ed |-> ed, junk |-> junk]

DigitChars(ds) == [i \in 1 .. Len(ds) |-> CharZero + ds[i]]

\* the characters of a literal
Text(l) ==
    (IF l.neg THEN <<CharMinus>> ELSE <<>>)
        \o DigitChars(l.ip)
        \o (IF l.point THEN <<CharDot>> \o DigitChars(l.fp) ELSE <<>>)
        \o (IF l.e = "none" THEN <<>>
            ELSE <<IF l.e = "E" THEN CharUpperE ELSE CharLowerE>>
                     \o (IF l.eneg THEN <<CharMinus>> ELSE <<>>)
                     \o DigitChars(l.ed))
        \o l.junk

\* the decimal digits of a natural number, most significant first
RECURSIVE NatDigits(_)
NatDigits(n) == IF n < 10 THEN <<n>> ELSE Append(NatDigits(n \div 10), n % 10)

\* bounds of the sampled inputs
MaxNonZeroDigits == 2
MaxIntDigits == 12
MaxIgnoredDigits == 21
MaxExponent == 30

\* the 7-digit fractions (as numbers) with at most k digits that are not 0
RECURSIVE SparseFractions(_, _)
SparseFractions(pos, k) ==
    IF pos = 0 THEN {0}
    ELSE {10 * f : f \in SparseFractions(pos - 1, k)}
             \cup (IF k = 0 THEN {}
                   ELSE {10 * f + d : f \in SparseFractions(pos - 1, k - 1),
                                      d \in {1, 5, 9}})

Fractions ==
    SparseFractions(FractionDigits, MaxNonZeroDigits)
        \cup {1234567, 9999999, 7483646, 7483647}

IntegerParts == {0, 1, 9, 10, 89, 90, 99, 100, 179, 180, 213, 214}

FormatValues ==
    {s * (p[1] * coordinate_precision + p[2]) :
        s \in {1, -1},
        p \in {q \in IntegerParts \X Fractions : q[1] < 214 \/ q[2] <= 7483647}}
        \cup {INT32_MIN}

\* literals around the cap on the digits before the decimal point
CapLiterals ==
    {Literal(neg, Rep(0, ns[1] - Len(ns[2])) \o ns[2], f[1], f[2], x[1], x[2], x[3], j) :
        neg \in BOOLEAN,
        ns \in {q \in (1 .. MaxIntDigits)
                         \X {<<0>>, <<1>>, <<9>>, <<2, 1, 4>>, <<2, 1, 5>>,
                             <<9, 9, 9, 9, 9, 9, 9, 9, 9, 9>>} : Len(q[2]) <= q[1]},
        f \in {<<FALSE, <<>> >>, <<TRUE, <<>> >>, <<TRUE, <<5>> >>,
               <<TRUE, <<7, 4, 8, 3, 6, 4, 7>> >>,
               <<TRUE, <<7, 4, 8, 3, 6, 4, 8>> >>},
        x \in {<<"none", FALSE, <<>> >>, <<"e", FALSE, <<0>> >>,
               <<"e", TRUE, <<5>> >>, <<"e", TRUE, <<8>> >>,
               <<"E", FALSE, <<1>> >>, <<"e", TRUE, <<1, 2>> >>},
        j \in {<<>>, <<CharComma>>}}

\* literals with eight or more digits after the decimal point
RoundingLiterals ==
    {Literal(neg, ip, TRUE, f7 \o <<d8>> \o Rep(dt, n), "none", FALSE, <<>>, <<>>) :
        neg \in BOOLEAN,
        ip \in {<<>>, <<0>>, <<1>>, <<1, 7, 9>>, <<2, 1, 4>>},
        f7 \in {Rep(0, 7), Rep(9, 7), <<2, 3, 4, 5, 6, 7, 8>>,
                <<7, 4, 8, 3, 6, 4, 7>>},
        d8 \in {0, 4, 5, 9},
        dt \in {0, 9},
        n \in 0 .. MaxIgnoredDigits}

ExponentDigitStrings ==
    {NatDigits(k) : k \in 0 .. MaxExponent}
        \cup {<<5, 6>>, <<6, 4>>, <<9, 9>>, <<>>,
              <<0, 0, 0, 0, 1>>, <<0, 0, 0, 0, 0, 1>>, <<1, 2, 3, 4, 5, 6>>}

\* literals in scientific notation
ExponentLiterals ==
    {Literal(neg, ip, f[1], f[2], "e", eneg, ed, <<>>) :
        neg \in BOOLEAN,
        ip \in {<<0>>, <<1>>, <<5>>, <<1, 5>>, <<2, 1, 4>>,
                <<0, 0, 0, 0, 0, 0, 0, 0, 0, 1>>,
                <<1, 2, 3, 4, 5, 6, 7, 8, 9, 5>>},
        f \in {<<FALSE, <<>> >>, <<TRUE, <<5>> >>, <<TRUE, <<0, 5>> >>,
               <<TRUE, <<2, 3, 4, 5, 6, 7, 8, 5>> >>,
               <<TRUE, <<2, 3, 4, 5, 6, 7, 8, 9, 5>> >>,
               <<TRUE, <<0, 0, 0, 0, 0, 0, 0, 0, 1>> >>},
        eneg \in BOOLEAN,
        ed \in ExponentDigitStrings}
        \cup {Literal(FALSE, <<1>>, FALSE, <<>>, "e", TRUE, <<1, 2, 3, 4, 5>>, <<>>),
              Literal(FALSE, <<5>>, FALSE, <<>>, "E", TRUE, <<2>>, <<>>)}

Literals == CapLiterals \cup RoundingLiterals \cup ExponentLiterals

-----------------------------------------------------------------------------
(* SpecFormat, SpecParse: the codec applied to sampled values and literals *)

Idle == Returned("none", <<>>)

InitFormat ==
    /\ m_x = undefined_coordinate
    /\ m_y = undefined_coordinate
    /\ data = <<>>
    /\ str = 1
    /\ value \in FormatValues
    /\ lit = NoLit
    /\ src = <<0, 0>>
    /\ ret = Idle
    /\ pc = "value"

InitParse ==
    /\ m_x = undefined_coordinate
    /\ m_y = undefined_coordinate
    /\ lit \in Literals
    /\ data = Text(lit)
    /\ str = 1
    /\ value = 0
    /\ src = <<0, 0>>
    /\ ret = Idle
    /\ pc = "text"

\* append_location_coordinate_to_string(std::back_inserter(s), value) on an
\* empty string s
FormatValue ==
    /\ pc = "value"
    /\ \E ovf \in OverflowOutcomes :
        LET r == append_location_coordinate_to_string(<<>>, value, ovf)
        IN  /\ data' = r.out
            /\ ret' = [op |-> "append_location_coordinate_to_string",
                       status |-> r.status, value |-> <<>>, ovf |-> ovf]
            /\ pc' = IF r.status = "ok" THEN "formatted" ELSE "aborted"
    /\ str' = 1
    /\ lit' = NoLit
    /\ UNCHANGED <<m_x, m_y, value, src>>

\* string_to_location_coordinate(&str) with str at the start of data
ParseText ==
    /\ pc \in {"text", "formatted"}
    /\ \E ovf \in OverflowOutcomes :
        LET r == string_to_location_coordinate(data, str, ovf)
        IN  /\ str' = r.str
            /\ ret' = [op |-> "string_to_location_coordinate",
                       status |-> r.status, value |-> r.value, ovf |-> ovf]
    /\ pc' = "parsed"
    /\ UNCHANGED <<m_x, m_y, data, value, lit, src>>

\* the caller hands the value the parser returned to the formatter
TakeValue ==
    /\ pc = "parsed"
    /\ ret.status = "ok"
    /\ value' = ret.value
    /\ pc' = "value"
    /\ UNCHANGED <<m_x, m_y, data, str, lit, src, ret>>

NextCodec ==
    \/ FormatValue
    \/ ParseText
    \/ TakeValue

SpecFormat == InitFormat /\ [][NextCodec]_vars

SpecParse == InitParse /\ [][NextCodec]_vars

-----------------------------------------------------------------------------
(* SpecPacked: a Location written as "x,y" and read back axis by axis *)

PackedCoords ==
    {s * (ip * coordinate_precision + f) :
        s \in {1, -1}, ip \in {0, 9, 89, 90, 179, 180},
        f \in {0, 1, 1200000, 9999999}}
        \cup {INT32_MIN + d : d \in 0 .. BoundaryMargin}

InitPacked ==
    /\ m_x \in PackedCoords
    /\ m_y \in PackedCoords
    /\ data = <<>>
    /\ str = 1
    /\ value = 0
    /\ lit = NoLit
    /\ src = <<0, 0>>
    /\ ret = Idle
    /\ pc = "location"

\* as_string into an empty buffer; the caller's cursor is put at its start
PackAsString ==
    /\ pc = "location"
    /\ \E separator \in Separators, ovf \in OverflowOutcomes :
        LET r == as_string(<<>>, m_x, m_y, separator, ovf)
        IN  /\ data' = r.out
            /\ ret' = [op |-> "as_string", status |-> r.status,
                       value |-> <<m_x, m_y>>, ovf |-> ovf]
            /\ pc' = IF r.status = "ok" THEN "written" ELSE "thrown"
    /\ src' = <<m_x, m_y>>
    /\ str' = 1
    /\ UNCHANGED <<m_x, m_y, value, lit>>

\* a default-constructed Location to fill from the text
NewLocation ==
    /\ pc = "written"
    /\ m_x' = undefined_coordinate
    /\ m_y' = undefined_coordinate
    /\ ret' = Returned("Location()", <<>>)
    /\ pc' = "fresh"
    /\ UNCHANGED <<data, str, value, lit, src>>

SetLonPartial ==
    /\ pc = "fresh"
    /\ \E ovf \in OverflowOutcomes :
        \E r \in {set_lon_partial(m_x, m_y, data, str, ovf)} :
            /\ m_x' = r.m_x
            /\ m_y' = r.m_y
            /\ str' = r.str
            /\ ret' = [op |-> "set_lon_partial", status |-> r.status,
                       value |-> <<m_x, m_y>>, ovf |-> ovf]
            /\ pc' = IF r.status = "ok" THEN "lon" ELSE "thrown"
    /\ UNCHANGED <<data, value, lit, src>>

\* the caller steps over the separator
Advance ==
    /\ pc = "lon"
    /\ str' = str + 1
    /\ pc' = "separator"
    /\ UNCHANGED <<m_x, m_y, data, value, lit, src, ret>>

SetLatPartial ==
    /\ pc = "separator"
    /\ \E ovf \in OverflowOutcomes :
        \E r \in {set_lat_partial(m_x, m_y, data, str, ovf)} :
            /\ m_x' = r.m_x
            /\ m_y' = r.m_y
            /\ str' = r.str
            /\ ret' = [op |-> "set_lat_partial", status |-> r.status,
                       value |-> <<m_x, m_y>>, ovf |-> ovf]
            /\ pc' = IF r.status = "ok" THEN "lat" ELSE "thrown"
    /\ UNCHANGED <<data, value, lit, src>>

NextPacked ==
    \/ PackAsString
    \/ NewLocation
    \/ SetLonPartial
    \/ Advance
    \/ SetLatPartial

SpecPacked == InitPacked /\ [][NextPacked]_vars

-----------------------------------------------------------------------------
(* SpecText: one axis of a Location set from a whole text *)

\* the coordinates the Location holds before the call
TextCoords == {undefined_coordinate, -coordinate_precision}

InitText ==
    /\ m_x \in TextCoords
    /\ m_y \in TextCoords
    /\ lit \in CapLiterals
    /\ data = Text(lit)
    /\ str = 1
    /\ value = 0
    /\ src = <<m_x, m_y>>
    /\ ret = Idle
    /\ pc = "text"

\* Location& set_lon(const char* str)
SetLon ==
    /\ pc = "text"
    /\ \E ovf \in OverflowOutcomes :
        \E r \in {set_lon(m_x, m_y, data, ovf)} :
            /\ m_x' = r.m_x
            /\ m_y' = r.m_y
            /\ ret' = [op |-> "set_lon", status |-> r.status,
                       value |-> r.parsed, ovf |-> ovf]
    /\ pc' = "set"
    /\ UNCHANGED <<data, str, value, lit, src>>

\* Location& set_lat(const char* str)
SetLat ==
    /\ pc = "text"
    /\ \E ovf \in OverflowOutcomes :
        \E r \in {set_lat(m_x, m_y, data, ovf)} :
            /\ m_x' = r.m_x
            /\ m_y' = r.m_y
            /\ ret' = [op |-> "set_lat", status |-> r.status,
                       value |-> r.parsed, ovf |-> ovf]
    /\ pc' = "set"
    /\ UNCHANGED <<data, str, value, lit, src>>

NextText ==
    \/ SetLon
    \/ SetLat

SpecText == InitText /\ [][NextText]_vars

-----------------------------------------------------------------------------
(* Claims about the Location object (Spec) *)

CheckedOps == {"lon", "lat", "as_string"}

UncheckedOps == {"lon_without_check", "lat_without_check",
                 "as_string_without_check", "Location()", "Location(x,y)",
                 "set_x", "set_y"}

\* C8: valid() is true exactly when -1,800,000,000 <= x <= 1,800,000,000 and
\* -900,000,000 <= y <= 900,000,000; lon(), lat() and as_string() throw
\* invalid_location exactly when valid() is false and return otherwise; the
\* unchecked accessors and construction never throw invalid_location.
C8_ValidityAndCheckedAccessors ==
    LET inside == /\ m_x >= -1800000000 /\ m_x <= 1800000000
                  /\ m_y >= -900000000 /\ m_y <= 900000000
    IN  /\ valid(m_x, m_y) <=> inside
        /\ ret.op \in CheckedOps =>
               ret.status = (IF inside THEN "ok" ELSE "invalid_location")
        /\ ret.op \in UncheckedOps => ret.status # "invalid_location"

\* lon() throws on a Location whose x is in range and whose y is one unit beyond
C8_Witness ==
    /\ ret.op = "lon"
    /\ ret.status = "invalid_location"
    /\ m_x = 1800000000
    /\ m_y = 900000001

\* C9: a default-constructed Location has x = y = 2,147,483,647 and is not
\* defined; after any calls of set_x / set_y it is defined exactly when neither
\* axis is 2,147,483,647; every valid Location is defined.
C9_UndefinedSentinel ==
    /\ ret.op = "Location()" =>
           m_x = 2147483647 /\ m_y = 2147483647 /\ ~operator_bool(m_x, m_y)
    /\ operator_bool(m_x, m_y) <=> (m_x # 2147483647 /\ m_y # 2147483647)
    /\ valid(m_x, m_y) => operator_bool(m_x, m_y)

\* set_y made one axis undefined on a Location whose other axis is set
C9_Witness ==
    /\ ret.op = "set_y"
    /\ m_x = 0
    /\ m_y = undefined_coordinate
    /\ ~operator_bool(m_x, m_y)

-----------------------------------------------------------------------------
(* Claims about the formatter (SpecFormat, SpecParse) *)

\* C1: for every scaled value v with -1,800,000,000 <= v <= 1,800,000,000 the
\* formatter's text is accepted by the parser, which returns v and leaves the
\* cursor at the end of the text.
C1_RoundTripValidRange ==
    (value >= -1800000000 /\ value <= 1800000000) =>
        /\ pc # "aborted"
        /\ (pc = "parsed" /\ lit = NoLit) =>
               /\ ret.status = "ok"
               /\ ret.value = value
               /\ str = Len(data) + 1

\* -179.9999999 went through the formatter and the parser
C1_Witness ==
    /\ pc = "parsed"
    /\ lit = NoLit
    /\ value = -1799999999
    /\ ret.value = value
    /\ Len(data) = 12

\* C3: every value the parser returned for some text, formatted and parsed
\* again, comes back as the same value.
C3_ClosedRoundTrip ==
    (pc = "parsed" /\ lit = NoLit) => (ret.status = "ok" /\ ret.value = value)

\* the shape the formatter's text has for v: sign, integer part of
\* |v| / 10,000,000 in 1 to 3 digits, then nothing or '.' and 1 to 7 digits
\* that do not end in '0'
CanonicalShape(text, v) ==
    LET sign == IF v < 0 THEN <<CharMinus>> ELSE <<>>
        whole == NatDigits(IF v < 0 THEN -CDiv(v, 10000000) ELSE v \div 10000000)
        head == sign \o DigitChars(whole)
        rest == SubSeq(text, Len(head) + 1, Len(text))
        part == IF v < 0 THEN -CRem(v, 10000000) ELSE v % 10000000
    IN  /\ Len(whole) \in 1 .. 3
        /\ Len(text) >= Len(head)
        /\ SubSeq(text, 1, Len(head)) = head
        /\ IF part = 0 THEN rest = <<>>
           ELSE /\ Len(rest) \in 2 .. 8
                /\ rest[1] = CharDot
                /\ \A i \in 2 .. Len(rest) : IsDigit(rest[i])
                /\ rest[Len(rest)] # CharZero

\* C4: the formatter's output for every scaled value has the canonical shape.
C4_MinimalCanonical ==
    pc = "formatted" => CanonicalShape(data, value)

\* the same, for every scaled value but the least one
C4_CanonicalAboveMin ==
    (pc = "formatted" /\ value # INT32_MIN) => CanonicalShape(data, value)

-----------------------------------------------------------------------------
(* Decimal arithmetic on digit sequences (most significant digit first),    *)
(* used to state what a literal denotes                                     *)

RECURSIVE DecStrip(_)
DecStrip(ds) == IF ds # <<>> /\ ds[1] = 0 THEN DecStrip(Tail(ds)) ELSE ds

RECURSIVE DecInc(_)
DecInc(ds) ==
    IF ds = <<>> THEN <<1>>
    ELSE IF ds[Len(ds)] < 9 THEN [ds EXCEPT ![Len(ds)] = @ + 1]
    ELSE Append(DecInc(SubSeq(ds, 1, Len(ds) - 1)), 0)

\* a <= b, for sequences without leading zeros
DecLeq(a, b) ==
    \/ Len(a) < Len(b)
    \/ /\ Len(a) = Len(b)
       /\ \/ a = b
          \/ \E i \in 1 .. Len(a) :
                 /\ a[i] < b[i]
                 /\ \A j \in 1 .. i - 1 : a[j] = b[j]

RECURSIVE DecToNat(_)
DecToNat(ds) ==
    IF ds = <<>> THEN 0 ELSE 10 * DecToNat(SubSeq(ds, 1, Len(ds) - 1)) + ds[Len(ds)]

\* the digits of |v| for an int32_t v, without leading zeros (none for 0)
RECURSIVE MagnitudeDigits(_)
MagnitudeDigits(v) ==
    IF v = 0 THEN <<>>
    ELSE Append(MagnitudeDigits(CDiv(v, 10)), IF v < 0 THEN -CRem(v, 10) ELSE v % 10)

\* floor((N + 5) / 10) for the number with digits n
HalfUpLastDigit(n) ==
    LET kept == SubSeq(n, 1, Len(n) - 1)
    IN  DecStrip(IF n[Len(n)] >= 5 THEN DecInc(kept) ELSE kept)

\* the exponent a literal carries
ExponentOf(l) ==
    IF l.e = "none" THEN 0 ELSE (IF l.eneg THEN -1 ELSE 1) * DecToNat(l.ed)

\* the grammar: sign, 1 to 10 integer digits (or none before a fraction that
\* starts with a digit), a fraction of at most 8 + 19 digits, an exponent of
\* one to five digits
WellFormed(l) ==
    /\ l.shape = "literal"
    /\ Len(l.ip) <= 10
    /\ Len(l.ip) >= 1 \/ (l.point /\ Len(l.fp) >= 1)
    /\ Len(l.fp) <= 27
    /\ l.e # "none" => Len(l.ed) \in 1 .. 5

\* the magnitude of the literal's value times 10,000,000, rounded half up
RefScaled(l) ==
    LET d == l.ip \o l.fp
        shift == 7 + ExponentOf(l) - Len(l.fp)
    IN  IF shift >= 0
        THEN (IF DecStrip(d) = <<>> THEN <<>> ELSE DecStrip(d) \o Rep(0, shift))
        ELSE IF -shift > Len(d) THEN <<>>
        ELSE HalfUpLastDigit(SubSeq(d, 1, Len(d) + shift + 1))

\* the rounded scaled value lies in the 32-bit signed range
RefFits(l) ==
    DecLeq(RefScaled(l), IF l.neg THEN <<2, 1, 4, 7, 4, 8, 3, 6, 4, 8>>
                         ELSE <<2, 1, 4, 7, 4, 8, 3, 6, 4, 7>>)

\* ds without its trailing zeros
DecStripTrailing(ds) ==
    LET nz == {i \in 1 .. Len(ds) : ds[i] # 0}
    IN  IF nz = {} THEN <<>>
        ELSE SubSeq(ds, 1, CHOOSE i \in nz : \A j \in nz : j <= i)

\* the exponent-free literal for the same number: the mantissa with its
\* decimal point moved by the exponent, written without leading zeros in the
\* integer part and without trailing zeros in the fraction
Plain(l) ==
    LET d == l.ip \o l.fp
        p == Len(l.ip) + ExponentOf(l)
        whole == IF p <= 0 THEN <<>>
                 ELSE IF p >= Len(d) THEN DecStrip(d) \o Rep(0, p - Len(d))
                 ELSE DecStrip(SubSeq(d, 1, p))
        ip2 == IF DecStrip(whole) = <<>> THEN <<0>> ELSE whole
        fp2 == DecStripTrailing(IF p <= 0 THEN Rep(0, -p) \o d
                                ELSE IF p >= Len(d) THEN <<>>
                                ELSE SubSeq(d, p + 1, Len(d)))
    IN  Literal(l.neg, ip2, fp2 # <<>>, fp2, "none", FALSE, <<>>, l.junk)

LiteralParsed == pc = "parsed" /\ lit.shape = "literal"

-----------------------------------------------------------------------------
(* Claims about the parser (SpecParse) *)

\* C2: a literal of the grammar whose value, scaled by 10,000,000 and rounded,
\* is outside the 32-bit signed range makes the parser throw invalid_location
\* (64-bit arithmetic wrapping modulo 2^64).
C2_OverflowIsAnError ==
    (LiteralParsed /\ ret.ovf = "wrap" /\ WellFormed(lit) /\ ~RefFits(lit)) =>
        ret.status = "invalid_location"

\* C5: for an accepted literal without exponent and with at least 8 digits
\* after the point, the magnitude returned is floor((N + 5) / 10), N being the
\* integer digits followed by the first 8 fraction digits, and the sign is the
\* literal's; up to 19 further digits are accepted and change nothing.
C5_HalfUpOnEighthDigit ==
    (LiteralParsed /\ lit.e = "none" /\ Len(lit.fp) >= 8) =>
        /\ ret.status = "ok" =>
               /\ DecStrip(MagnitudeDigits(ret.value))
                      = HalfUpLastDigit(lit.ip \o SubSeq(lit.fp, 1, 8))
               /\ ret.value < 0 => lit.neg
               /\ ret.value > 0 => ~lit.neg
        /\ (Len(lit.fp) <= 27 /\ RefFits(lit)) => ret.status = "ok"

\* "1.23456785" was parsed to 12345679
C5_Witness ==
    /\ LiteralParsed
    /\ data = <<49, 46, 50, 51, 52, 53, 54, 55, 56, 53>>
    /\ ret.status = "ok"
    /\ ret.value = 12345679

\* what the parser does with the exponent-free form of the literal in data
PlainResult == string_to_location_coordinate(Text(Plain(lit)), 1, ret.ovf)

ExponentCase ==
    /\ LiteralParsed
    /\ lit.e # "none"
    /\ ret.status = "ok"
    /\ WellFormed(lit)
    /\ RefFits(lit)

\* C6 as claimed: an accepted literal with an exponent whose value is in range
\* gets the value its exponent-free form gets.
C6_ExponentFormAsClaimed ==
    ExponentCase => (PlainResult.status = "ok" /\ PlainResult.value = ret.value)

\* C6: an accepted literal with an exponent whose value is in range, whose
\* mantissa has at most 8 fraction digits unless the exponent is zero or
\* negative, and whose exponent-free form has at most 27 fraction digits, gets
\* the value its exponent-free form gets.
C6_ExponentFormWithinCaps ==
    (/\ ExponentCase
     /\ Len(lit.fp) <= 8 \/ ExponentOf(lit) <= 0
     /\ Len(Plain(lit).fp) <= 27) =>
        (PlainResult.status = "ok" /\ PlainResult.value = ret.value)

\* "15.05e-9" was parsed to what "0.00000001505" is parsed to
C6_Witness ==
    /\ ExponentCase
    /\ lit.ip = <<1, 5>>
    /\ lit.fp = <<0, 5>>
    /\ ExponentOf(lit) = -9
    /\ ~lit.neg
    /\ Plain(lit).fp = <<0, 0, 0, 0, 0, 0, 0, 1, 5, 0, 5>>
    /\ ret.value = 0
    /\ PlainResult.value = 0

\* C7: a text whose integer part has 11 or more digits is rejected whatever
\* follows; an integer part of 1 to 10 digits is accepted whenever the rest of
\* the literal is well formed and the value fits in 32 bits.
C7_IntegerDigitCap ==
    LiteralParsed =>
        /\ Len(lit.ip) >= 11 => ret.status = "invalid_location"
        /\ (Len(lit.ip) \in 1 .. 10 /\ WellFormed(lit) /\ RefFits(lit)) =>
               ret.status = "ok"

\* "09999999999e-5" was rejected: 99999.99999 fits, the eleven digits do not
C7_Witness ==
    /\ LiteralParsed
    /\ lit.ip = <<0>> \o Rep(9, 10)
    /\ ExponentOf(lit) = -5
    /\ ~lit.point
    /\ ret.status = "invalid_location"

\* "0000000214.7483647" was accepted
C7_WitnessTenDigits ==
    /\ LiteralParsed
    /\ lit.ip = <<0, 0, 0, 0, 0, 0, 0, 2, 1, 4>>
    /\ lit.fp = <<7, 4, 8, 3, 6, 4, 7>>
    /\ ret.status = "ok"
    /\ ret.value = INT32_MAX

-----------------------------------------------------------------------------
(* Claims about both axes in one buffer (SpecPacked) *)

\* C10: for every valid Location L, as_string with ',' succeeds; set_lon_partial
\* at the start of its text succeeds and leaves the cursor on the ','; after
\* the cursor is advanced by one, set_lat_partial succeeds and leaves the
\* cursor at the end of the text; the Location filled equals L; each partial
\* call changes only its own axis.
C10_PackedAxes ==
    /\ pc = "thrown" => (ret.op = "as_string" /\ ~valid(src[1], src[2]))
    /\ pc = "lon" =>
           /\ ret.status = "ok"
           /\ CharAt(data, str) = CharComma
           /\ m_x = src[1]
           /\ m_y = ret.value[2]
    /\ pc = "lat" =>
           /\ ret.status = "ok"
           /\ str = Len(data) + 1
           /\ m_x = ret.value[1]
           /\ <<m_x, m_y>> = src

\* "-179.9999999,90" was read back into a default-constructed Location
C10_Witness ==
    /\ pc = "lat"
    /\ src = <<-1799999999, 900000000>>
    /\ data = <<45, 49, 55, 57, 46, 57, 57, 57, 57, 57, 57, 57, 44, 57, 48>>
    /\ ret.value = <<-1799999999, undefined_coordinate>>
    /\ <<m_x, m_y>> = src

-----------------------------------------------------------------------------
(* Claims about the text setters (SpecText) *)

TextSet == pc = "set" /\ ret.op \in {"set_lon", "set_lat"}

\* C11: set_lon(text) and set_lat(text) either succeed, in which case the whole
\* text is one literal and only the addressed axis changes, or they fail with
\* invalid_location and leave both axes of the Location exactly as they were
\* before the call, whether the literal was malformed or out of range or
\* characters remained after a complete literal.
C11_AllOrNothing ==
    TextSet =>
        /\ ret.status = "ok" =>
               /\ lit.junk = <<>>
               /\ ret.op = "set_lon" => m_y = src[2]
               /\ ret.op = "set_lat" => m_x = src[1]
        /\ ret.status = "invalid_location" => <<m_x, m_y>> = src

\* the same for the one failure cause that leaves before the assignment: a
\* literal the parser rejects
C11_ParserErrorKeepsAxes ==
    (TextSet /\ ret.status = "invalid_location" /\ ~ret.value) =>
        <<m_x, m_y>> = src

=============================================================================
